---- MODULE Spec2Model ----
(***************************************************************************)
(* Arcade Game Picker (src/app.py): the status persistence layer           *)
(* (Supabase REST table first, SQLite fallback, per-session status cache)  *)
(* and the on-demand enrichment clients (marquee bytes, ADB details,       *)
(* image-URL extraction).                                                  *)
(*                                                                         *)
(* Python strings that the code normalises (rom names, secrets) are        *)
(* sequences of one-character strings, so that strip() and lower() are     *)
(* computed, not assumed.  Python's None is the string "None" where the    *)
(* other values are strings (statuses, bytes) and a tagged record where    *)
(* they are sequences (secrets).                                           *)
(*                                                                         *)
(* A function of the code that touches a store or the network is an        *)
(* operator from its arguments, the stores and the outcome the environment *)
(* gives each request to an "effect" record: the value returned, whether   *)
(* it raised, the stores afterwards, and the requests (net) and SQL        *)
(* statements (sql) it issued, in order.                                   *)
(***************************************************************************)
EXTENDS Naturals, Sequences, FiniteSets

VARIABLES
    secrets,              \* st.secrets / session_state: SUPABASE_URL, SUPABASE_ANON_KEY, SUPABASE_KEY
    supabase_table,       \* rows of the remote table game_status
    table_exists,         \* whether game_state.db holds the table game_status
    sqlite_db,            \* rows of the local table game_status
    status_cache,         \* st.session_state.status_cache
    status_cache_loaded,  \* st.session_state.status_cache_loaded
    loads,                \* history: times this session assigned status_cache from a backend
    last,                 \* history: the last status operation and its effect
    adb_cache,            \* st.session_state.adb_cache
    marquee_bytes_cache,  \* st.session_state.marquee_bytes_cache
    fetched,              \* history: requests issued per URL since its cache entry was last absent
    lastE,                \* history: the last enrichment operation and its effect
    payload,              \* the structure handed to extract_image_urls
    image_urls,           \* what extract_image_urls returned for it
    search_items,         \* the search results handed to the relevance filter
    ranked,               \* what the relevance filter returned for them
    pc,                   \* per concurrent session: where its sqlite_set_status call is
    writes,               \* per concurrent session: the (rom, status) of its call
    pending,              \* per concurrent session: the table as its open transaction has it
    db_lock,              \* the session whose transaction holds the write lock of game_state.db, or 0
    commits               \* history: the sessions that committed, in commit order

vars == <<secrets, supabase_table, table_exists, sqlite_db, status_cache,
          status_cache_loaded, loads, last, adb_cache, marquee_bytes_cache,
          fetched, lastE, payload, image_urls, search_items, ranked,
          pc, writes, pending, db_lock, commits>>

statusVars == <<secrets, supabase_table, table_exists, sqlite_db, status_cache,
                status_cache_loaded, loads, last>>
enrichVars == <<adb_cache, marquee_bytes_cache, fetched, lastE>>
extractVars == <<payload, image_urls>>
filterVars == <<search_items, ranked>>
concVars == <<pc, writes, pending, db_lock, commits>>

----------------------------------------------------------------------------
(* Values *)

None == "None"
STATUS_WANT == "want_to_play"
STATUS_PLAYED == "played"
STATUS_NO_ROM == "dont_have_rom"
STATUS_NOT_PLAYABLE == "not_playable"

\* The statuses the buttons of show_game_details write.  Two of the four
\* suffice to tell an overwrite from a no-op.
Statuses == {STATUS_WANT, STATUS_PLAYED}

\* Contents of the dataset's rom column, before normalisation.
RawRoms == {<<" ">>, <<" ", "A", " ">>, <<"b">>}

\* Python dicts as functions
EmptyDict == <<>>
DictSet(d, k, v) == [x \in (DOMAIN d) \cup {k} |-> IF x = k THEN v ELSE d[x]]
DictPop(d, k) == [x \in (DOMAIN d) \ {k} |-> d[x]]
DictGet(d, k) == IF k \in DOMAIN d THEN d[k] ELSE None

----------------------------------------------------------------------------
(* Helpers: normalization *)

\* The whitespace str.strip() removes
IsSpace(c) == c \in {" ", "\t", "\n", "\r"}

RECURSIVE lstrip(_)
lstrip(s) == IF s # <<>> /\ IsSpace(Head(s)) THEN lstrip(Tail(s)) ELSE s

RECURSIVE rstrip(_)
rstrip(s) ==
    IF s # <<>> /\ IsSpace(s[Len(s)]) THEN rstrip(SubSeq(s, 1, Len(s) - 1)) ELSE s

strip(s) == rstrip(lstrip(s))

\* str.lower() on the letters of the strings modelled
UpperCase == <<"A", "B", "E", "G", "H", "J", "N", "P", "T", "W">>
LowerCase == <<"a", "b", "e", "g", "h", "j", "n", "p", "t", "w">>
lower_char(c) ==
    IF \E i \in DOMAIN UpperCase : UpperCase[i] = c
    THEN LowerCase[CHOOSE i \in DOMAIN UpperCase : UpperCase[i] = c]
    ELSE c

lower(s) == [i \in 1..Len(s) |-> lower_char(s[i])]

\* (rom or "").strip().lower()
norm_rom(rom) == lower(strip(rom))

\* normalize_str(x) for a string cell: str(x).strip()
normalize_str(x) == strip(x)

\* show_game_details: rom = normalize_str(row.get("rom", "")).lower()
row_rom(cell) == lower(normalize_str(cell))

----------------------------------------------------------------------------
(* Supabase (REST) - status persistence *)

NoSecret == [t |-> "none", s |-> <<>>]
Str(s) == [t |-> "str", s |-> s]


Secrets(url, anon, key) ==
    [SUPABASE_URL |-> url, SUPABASE_ANON_KEY |-> anon, SUPABASE_KEY |-> key]

\* The configurations of a deployment: nothing set, an endpoint without a
\* credential, a credential without an endpoint, a blank endpoint, and an
\* endpoint with either credential.
SecretConfigs ==
    {Secrets(NoSecret, NoSecret, NoSecret),
     Secrets(Str(<<"x">>), NoSecret, Str(<<" ">>)),
     Secrets(NoSecret, Str(<<"x">>), NoSecret),
     Secrets(Str(<<" ">>), Str(<<"x">>), Str(<<"x">>)),
     Secrets(Str(<<"x">>), Str(<<"x">>), NoSecret),
     Secrets(Str(<<" ", "x">>), Str(<<" ">>), Str(<<"x">>))}

\* val or None: None and "" are falsy
truthy(val) == val.t = "str" /\ val.s # <<>>

\* st.secrets.get(name); session_state holds no secret (nothing stores one);
\* a string is stripped; a falsy value becomes None.
get_secret(sec, name) ==
    LET val == sec[name]
        stripped == IF val.t = "str" THEN Str(strip(val.s)) ELSE val
    IN IF truthy(stripped) THEN stripped ELSE NoSecret

supabase_enabled_any(sec) ==
    LET url == get_secret(sec, "SUPABASE_URL")
        anon == get_secret(sec, "SUPABASE_ANON_KEY")
        key == IF truthy(anon) THEN anon ELSE get_secret(sec, "SUPABASE_KEY")
    IN truthy(url) \/ truthy(key)

supabase_enabled(sec) ==
    LET url == get_secret(sec, "SUPABASE_URL")
        anon == get_secret(sec, "SUPABASE_ANON_KEY")
        key == IF truthy(anon) THEN anon ELSE get_secret(sec, "SUPABASE_KEY")
    IN truthy(url) /\ truthy(key)

\* A table game_status: a set of rows (rom, status).  updated_at is written
\* and never read, by no statement of the program; it is left out.
Row(rom, status) == [rom |-> rom, status |-> status]

\* The mapping built from rows: out[rom.strip().lower()] = status for every
\* row whose rom is non-empty.
listing(rows) ==
    LET named == {r \in rows : r.rom # <<>>}
    IN [k \in {norm_rom(r.rom) : r \in named} |->
            (CHOOSE r \in named : norm_rom(r.rom) = k).status]

\* Outcomes of a request to the remote table.
\*   ok           2xx and, for the listing, a JSON array of rows
\*   unavailable  urlopen raises (timeout, connection failure, non-2xx)
\*   unparseable  the listing's body is not JSON: json.loads raises
\*   nonarray     the listing's body is JSON but not an array
ListResponses == {"ok", "unavailable", "unparseable", "nonarray"}
WriteResponses == {"ok", "unavailable"}

Effect(out, ret, raised, net, sql, remote, db) ==
    [out |-> out, ret |-> ret, raised |-> raised, net |-> net, sql |-> sql,
     remote |-> remote, db |-> db]

supabase_get_all_statuses(remote, db, resp) ==
    IF resp \in {"unavailable", "unparseable"}
    THEN Effect(EmptyDict, None, TRUE, <<"GET">>, <<>>, remote, db)
    ELSE IF resp = "nonarray"
    THEN Effect(EmptyDict, None, FALSE, <<"GET">>, <<>>, remote, db)
    ELSE Effect(listing(remote), None, FALSE, <<"GET">>, <<>>, remote, db)

\* POST with Prefer: resolution=merge-duplicates, as the table's primary key
\* rom makes the server apply it: the row of that rom is replaced.
merge_duplicates(rows, rom, status) ==
    {r \in rows : r.rom # rom} \cup {Row(rom, status)}

\* DELETE ...?rom=eq.<rom>
delete_eq(rows, rom) == {r \in rows : r.rom # rom}

supabase_set_status_delete_swallowed(remote, db, rom, status, resp) ==
    LET r == norm_rom(rom) IN
    IF r = <<>>
    THEN Effect(EmptyDict, None, FALSE, <<>>, <<>>, remote, db)
    ELSE IF status = None
    THEN IF resp = "ok"
         THEN Effect(EmptyDict, None, FALSE, <<"DELETE">>, <<>>, delete_eq(remote, r), db)
         ELSE Effect(EmptyDict, None, FALSE, <<"DELETE">>, <<>>, remote, db)
    ELSE IF resp = "ok"
         THEN Effect(EmptyDict, None, FALSE, <<"POST">>, <<>>,
                     merge_duplicates(remote, r, status), db)
         ELSE Effect(EmptyDict, None, TRUE, <<"POST">>, <<>>, remote, db)

supabase_set_status(remote, db, rom, status, resp) ==
    LET r == norm_rom(rom) IN
    IF r = <<>>
    THEN Effect(EmptyDict, None, FALSE, <<>>, <<>>, remote, db)
    ELSE IF status = None
    THEN IF resp = "ok"
         THEN Effect(EmptyDict, None, FALSE, <<"DELETE">>, <<>>, delete_eq(remote, r), db)
         ELSE Effect(EmptyDict, None, TRUE, <<"DELETE">>, <<>>, remote, db)
    ELSE IF resp = "ok"
         THEN Effect(EmptyDict, None, FALSE, <<"POST">>, <<>>,
                     merge_duplicates(remote, r, status), db)
         ELSE Effect(EmptyDict, None, TRUE, <<"POST">>, <<>>, remote, db)

----------------------------------------------------------------------------
(* SQLite fallback (local / no secrets) *)

\* A statement runs (ok) or the engine raises (disk full, locked, corrupt),
\* and then nothing is committed.

\* INSERT ... ON CONFLICT(rom) DO UPDATE SET status=excluded.status
insert_plain(rows, rom, status) == rows \cup {Row(rom, status)}

insert_on_conflict_update(rows, rom, status) ==
    IF \E r \in rows : r.rom = rom
    THEN {IF r.rom = rom THEN Row(rom, status) ELSE r : r \in rows}
    ELSE rows \cup {Row(rom, status)}

\* DELETE FROM game_status WHERE rom=?
delete_where(rows, rom) == {r \in rows : r.rom # rom}

sqlite_get_all_statuses(remote, db, ok) ==
    IF ~ok
    THEN Effect(EmptyDict, None, TRUE, <<>>, <<"SELECT">>, remote, db)
    ELSE Effect(listing(db), None, FALSE, <<>>, <<"SELECT">>, remote, db)

sqlite_set_status(remote, db, rom, status, ok) ==
    LET r == norm_rom(rom) IN
    IF r = <<>>
    THEN Effect(EmptyDict, None, FALSE, <<>>, <<>>, remote, db)
    ELSE IF status = None
    THEN IF ok
         THEN Effect(EmptyDict, None, FALSE, <<>>, <<"DELETE">>, remote, delete_where(db, r))
         ELSE Effect(EmptyDict, None, TRUE, <<>>, <<"DELETE">>, remote, db)
    ELSE IF ok
         THEN Effect(EmptyDict, None, FALSE, <<>>, <<"INSERT">>, remote,
                     insert_on_conflict_update(db, r, status))
         ELSE Effect(EmptyDict, None, TRUE, <<>>, <<"INSERT">>, remote, db)

----------------------------------------------------------------------------
(* Unified status API *)

\* The requests and statements of a call that was tried first are kept.
After(first, second) ==
    [second EXCEPT !.net = first.net \o second.net, !.sql = first.sql \o second.sql]

\* try: return <remote> / except Exception: return <local>
try_except(tried, fallback) == IF tried.raised THEN After(tried, fallback) ELSE tried

get_all_statuses(sec, remote, db, resp, ok) ==
    IF supabase_enabled(sec)
    THEN try_except(supabase_get_all_statuses(remote, db, resp),
                    sqlite_get_all_statuses(remote, db, ok))
    ELSE sqlite_get_all_statuses(remote, db, ok)

set_status(sec, remote, db, rom, status, resp, ok) ==
    IF supabase_enabled(sec)
    THEN try_except(supabase_set_status(remote, db, rom, status, resp),
                    sqlite_set_status(remote, db, rom, status, ok))
    ELSE sqlite_set_status(remote, db, rom, status, ok)

----------------------------------------------------------------------------
(* Session state *)

\* init_sqlite_db: CREATE TABLE IF NOT EXISTS keeps the rows of a table
\* that exists and makes an empty one otherwise.
init_sqlite_db(exists, db) == IF exists THEN db ELSE {}

\* load_status_cache_once: [cache, loaded, did, eff]; did tells whether
\* status_cache was assigned from a backend.
Loaded(cache, loaded, did, eff) ==
    [cache |-> cache, loaded |-> loaded, did |-> did, eff |-> eff]

NoEffect(remote, db) == Effect(EmptyDict, None, FALSE, <<>>, <<>>, remote, db)

\* status_cache = get_all_statuses(); status_cache_loaded = True
assign_cache(cache, loaded, e) ==
    IF e.raised THEN Loaded(cache, loaded, FALSE, e) ELSE Loaded(e.out, TRUE, TRUE, e)

load_status_cache_always(cache, loaded, sec, remote, db, resp, ok) ==
    assign_cache(cache, loaded, get_all_statuses(sec, remote, db, resp, ok))

load_status_cache_once(cache, loaded, sec, remote, db, resp, ok) ==
    IF ~loaded
    THEN assign_cache(cache, loaded, get_all_statuses(sec, remote, db, resp, ok))
    ELSE Loaded(cache, loaded, FALSE, NoEffect(remote, db))

\* status_for_rom: the value returned and the requests and statements issued
status_for_rom(cache, rom) ==
    LET r == norm_rom(rom) IN
    IF r = <<>> THEN [ret |-> None, net |-> <<>>, sql |-> <<>>]
    ELSE [ret |-> DictGet(cache, r), net |-> <<>>, sql |-> <<>>]

write_cache_despite_raise(cache, r, new_status, e) ==
    IF new_status = None
    THEN [cache |-> DictPop(cache, r), eff |-> e]
    ELSE [cache |-> DictSet(cache, r, new_status), eff |-> e]

\* The cache after set_status returned or raised (lines 340-343)
write_cache(cache, r, new_status, e) ==
    IF e.raised THEN [cache |-> cache, eff |-> e]
    ELSE IF new_status = None
    THEN [cache |-> DictPop(cache, r), eff |-> e]
    ELSE [cache |-> DictSet(cache, r, new_status), eff |-> e]

update_status_backend_only(cache, sec, remote, db, rom, new_status, resp, ok) ==
    IF norm_rom(rom) = <<>> THEN [cache |-> cache, eff |-> NoEffect(remote, db)]
    ELSE [cache |-> cache,
          eff |-> set_status(sec, remote, db, norm_rom(rom), new_status, resp, ok)]

\* update_status: [cache, eff]; a raise of set_status leaves the cache as it was
update_status(cache, sec, remote, db, rom, new_status, resp, ok) ==
    IF norm_rom(rom) = <<>> THEN [cache |-> cache, eff |-> NoEffect(remote, db)]
    ELSE write_cache(cache, norm_rom(rom), new_status,
                     set_status(sec, remote, db, norm_rom(rom), new_status, resp, ok))

----------------------------------------------------------------------------
(* Marquees (R2) - fetch bytes for reliability *)

\* A URL: which template, filled with which rom
Url(kind, rom) == [kind |-> kind, rom |-> rom]
NoUrl == Url("none", <<>>)

default_marquee_url == Url("marquee_default", <<>>)

marquee_url(rom) ==
    IF norm_rom(rom) = <<>> THEN default_marquee_url
    ELSE Url("marquee", norm_rom(rom))

\* What a GET of an image gives: urlopen raises, or a body: no bytes, bytes
ImageResponses == {"fail", "", "PNG"}

\* bytes | None in a condition: None and b"" are falsy
truthy_bytes(b) == b # None /\ b # ""

Fetched(cache, ret, net) == [cache |-> cache, ret |-> ret, net |-> net]

fetch_image_bytes(cache, url, resp) ==
    IF url \in DOMAIN cache THEN Fetched(cache, cache[url], <<>>)
    ELSE IF resp = "fail" THEN Fetched(DictSet(cache, url, None), None, <<url>>)
    ELSE Fetched(DictSet(cache, url, resp), resp, <<url>>)

\* show_marquee: the cache afterwards, the requests issued, the URLs asked
\* of fetch_image_bytes with what it returned for each, and the bytes shown.
Marquee(cache, net, asked, rets, shown) ==
    [cache |-> cache, net |-> net, asked |-> asked, rets |-> rets, shown |-> shown]

\* b2 = fetch_image_bytes(default_marquee_url()); if b2: _st_image(b2)
show_default(first, second) ==
    Marquee(second.cache, first.net \o second.net,
            first.asked \o <<default_marquee_url>>, first.rets \o <<second.ret>>,
            IF truthy_bytes(second.ret) THEN second.ret ELSE None)

\* b = fetch_image_bytes(marquee_url(rom)); if b: _st_image(b); return
show_own(f, url, resp2) ==
    IF truthy_bytes(f.ret)
    THEN Marquee(f.cache, f.net, <<url>>, <<f.ret>>, f.ret)
    ELSE show_default(Marquee(f.cache, f.net, <<url>>, <<f.ret>>, None),
                      fetch_image_bytes(f.cache, default_marquee_url, resp2))

show_marquee(cache, rom, enabled, resp1, resp2) ==
    IF ~enabled THEN Marquee(cache, <<>>, <<>>, <<>>, None)
    ELSE IF norm_rom(rom) # <<>>
    THEN show_own(fetch_image_bytes(cache, marquee_url(norm_rom(rom)), resp1),
                  marquee_url(norm_rom(rom)), resp2)
    ELSE show_default(Marquee(cache, <<>>, <<>>, <<>>, None),
                      fetch_image_bytes(cache, default_marquee_url, resp2))

----------------------------------------------------------------------------
(* ADB (ArcadeItalia) on-demand integration *)

adb_urls(rom) ==
    [page_https |-> Url("page_https", norm_rom(rom)),
     page_http |-> Url("page_http", norm_rom(rom)),
     scraper_https |-> Url("scraper_https", norm_rom(rom)),
     scraper_http |-> Url("scraper_http", norm_rom(rom))]

\* What fetch_adb_details returns and caches:
\*   dict     the JSON object an endpoint answered (body names it)
\*   wrapped  {"_data": data} around JSON that is no object
\*   error    {"_error", "_detail", "_rom", "_fallback_page"}
\*   norom    {"_error": "No ROM short name ..."}
\*   none     Python's None (show_adb_block)
Adb(kind, body, rom, page) == [kind |-> kind, body |-> body, rom |-> rom, page |-> page]
NoAdb == Adb("none", "", <<>>, NoUrl)

\* What a GET of an endpoint gives: an exception with its str(e), a JSON
\* object, or JSON that is no object.
Raises(msg) == [kind |-> "raise", body |-> msg]
AdbResponses ==
    {Raises(""), Raises("timed out"), Raises("HTTP Error 500"),
     [kind |-> "object", body |-> "p1"], [kind |-> "array", body |-> "p2"]}

\* fetch_json_url: [raised, err, data]
fetch_json_url(url, resp) ==
    IF resp.kind = "raise" THEN [raised |-> TRUE, err |-> resp.body, data |-> NoAdb]
    ELSE IF resp.kind = "object"
    THEN [raised |-> FALSE, err |-> "", data |-> Adb("dict", resp.body, <<>>, NoUrl)]
    ELSE [raised |-> FALSE, err |-> "", data |-> Adb("wrapped", resp.body, <<>>, NoUrl)]

Variants_http_first(urls) == <<urls.scraper_http, urls.scraper_https>>

\* The variants of the scraper endpoint, in the order they are tried
Variants(urls) == <<urls.scraper_https, urls.scraper_http>>

\* "_detail": last_err or "Unknown error"
detail_of(last_err) == IF last_err # "" THEN last_err ELSE "Unknown error"

RECURSIVE try_variants_first_err(_, _, _, _, _, _, _)
try_variants_first_err(cache, rom, us, resps, i, net, last_err) ==
    IF i > Len(us)
    THEN LET out == Adb("error", detail_of(last_err), rom, adb_urls(rom).page_http)
         IN Fetched(DictSet(cache, rom, out), out, net)
    ELSE LET got == fetch_json_url(us[i], resps[i])
         IN IF ~got.raised
            THEN Fetched(DictSet(cache, rom, got.data), got.data, net \o <<us[i]>>)
            ELSE try_variants_first_err(cache, rom, us, resps, i + 1, net \o <<us[i]>>,
                                        IF last_err = "" THEN got.err ELSE last_err)

\* The loop of fetch_adb_details over the variants us, answered by resps,
\* from variant i on; net are the requests issued so far and last_err the
\* str(e) of the latest failure ("" stands for None as for "").
RECURSIVE try_variants(_, _, _, _, _, _, _)
try_variants(cache, rom, us, resps, i, net, last_err) ==
    IF i > Len(us)
    THEN LET out == Adb("error", detail_of(last_err), rom, adb_urls(rom).page_http)
         IN Fetched(DictSet(cache, rom, out), out, net)
    ELSE LET got == fetch_json_url(us[i], resps[i])
         IN IF ~got.raised
            THEN Fetched(DictSet(cache, rom, got.data), got.data, net \o <<us[i]>>)
            ELSE try_variants(cache, rom, us, resps, i + 1, net \o <<us[i]>>, got.err)

fetch_adb_details_uncached(cache, rom, resps) ==
    IF norm_rom(rom) = <<>> THEN Fetched(cache, Adb("norom", "", <<>>, NoUrl), <<>>)
    ELSE try_variants(cache, norm_rom(rom), Variants(adb_urls(rom)), resps, 1, <<>>, "")

fetch_adb_details(cache, rom, resps) ==
    IF norm_rom(rom) = <<>> THEN Fetched(cache, Adb("norom", "", <<>>, NoUrl), <<>>)
    ELSE IF norm_rom(rom) \in DOMAIN cache THEN Fetched(cache, cache[norm_rom(rom)], <<>>)
    ELSE try_variants(cache, norm_rom(rom), Variants(adb_urls(rom)), resps, 1, <<>>, "")

\* if refresh_btn and rom in adb_cache: del adb_cache[rom]
refreshed(cache, rom, btn) ==
    IF btn = "refresh" /\ rom \in DOMAIN cache THEN DictPop(cache, rom) ELSE cache

\* show_adb_block, with the button pressed in this run ("none", "load" or
\* "refresh"): the cache afterwards, the data returned, the requests issued.
show_adb_block(cache, rom, btn, resps) ==
    IF norm_rom(rom) = <<>> THEN Fetched(cache, NoAdb, <<>>)
    ELSE IF btn = "none"
    THEN IF norm_rom(rom) \in DOMAIN cache /\ cache[norm_rom(rom)].kind \notin {"error", "norom"}
         THEN Fetched(cache, cache[norm_rom(rom)], <<>>)
         ELSE Fetched(cache, NoAdb, <<>>)
    ELSE fetch_adb_details(refreshed(cache, norm_rom(rom), btn), norm_rom(rom), resps)

----------------------------------------------------------------------------
(* extract_image_urls *)

\* What json.loads gives: a dict (its values in insertion order: walk reads
\* x.values() and no key), a list, a string (its characters), and the
\* scalars that are no string.
JDict(items) == [t |-> "dict", s |-> <<>>, items |-> items]
JList(items) == [t |-> "list", s |-> <<>>, items |-> items]
JString(s) == [t |-> "str", s |-> s, items |-> <<>>]
JNumber == [t |-> "num", s |-> <<>>, items |-> <<>>]
JNull == [t |-> "null", s |-> <<>>, items |-> <<>>]

startswith(s, prefix) == Len(s) >= Len(prefix) /\ SubSeq(s, 1, Len(prefix)) = prefix

SchemeHttp == <<"h", "t", "t", "p", ":", "/", "/">>
SchemeHttps == <<"h", "t", "t", "p", "s", ":", "/", "/">>

ImageExtensions ==
    {<<"p", "n", "g">>, <<"j", "p", "g">>, <<"j", "p", "e", "g">>, <<"w", "e", "b", "p">>}

\* What may follow the extension: (\?.*)?$ - nothing, or "?" and characters
\* that are no newline; $ also matches before a newline that ends the string.
query_to_end(rest) ==
    LET body == IF rest # <<>> /\ rest[Len(rest)] = "\n"
                THEN SubSeq(rest, 1, Len(rest) - 1) ELSE rest
    IN \/ body = <<>>
       \/ body[1] = "?" /\ \A j \in 2..Len(body) : body[j] # "\n"

\* re.search(r"\.(png|jpg|jpeg|webp)(\?.*)?$", s, re.IGNORECASE)
search_image_ext(s) ==
    \E i \in 1..Len(s), ext \in ImageExtensions :
        /\ s[i] = "."
        /\ i + Len(ext) <= Len(s)
        /\ lower(SubSeq(s, i + 1, i + Len(ext))) = ext
        /\ query_to_end(SubSeq(s, i + Len(ext) + 1, Len(s)))

\* walk(x), from the list urls so far to the list afterwards; walk_each is
\* the loop over the values of a dict or the items of a list, from item i.
RECURSIVE walk(_, _)
RECURSIVE walk_each(_, _, _)
walk_each(urls, items, i) ==
    IF i > Len(items) THEN urls ELSE walk_each(walk(urls, items[i]), items, i + 1)

walk(urls, x) ==
    IF x.t \in {"dict", "list"} THEN walk_each(urls, x.items, 1)
    ELSE IF x.t = "str"
    THEN LET s == strip(x.s)
         IN IF (startswith(s, SchemeHttp) \/ startswith(s, SchemeHttps)) /\ search_image_ext(s)
            THEN Append(urls, s)
            ELSE urls
    ELSE urls

RECURSIVE unique_never_seen(_, _, _, _)
unique_never_seen(urls, i, seen, out) ==
    IF i > Len(urls) THEN out
    ELSE IF urls[i] \notin seen
    THEN unique_never_seen(urls, i + 1, seen, Append(out, urls[i]))
    ELSE unique_never_seen(urls, i + 1, seen, out)

\* The loop that drops the repeats: from urls[i] on, with the set seen and
\* the list out so far.
RECURSIVE unique(_, _, _, _)
unique(urls, i, seen, out) ==
    IF i > Len(urls) THEN out
    ELSE IF urls[i] \notin seen
    THEN unique(urls, i + 1, seen \cup {urls[i]}, Append(out, urls[i]))
    ELSE unique(urls, i + 1, seen, out)

extract_image_urls(obj) == unique(walk(<<>>, obj), 1, {}, <<>>)

----------------------------------------------------------------------------
(* The status operations of a session *)

\* What the environment answered: "none" when nothing was asked
Answered(asked, answer) == IF asked = <<>> THEN "none" ELSE answer
Engine(ok) == IF ok THEN "ok" ELSE "error"

\* The last operation: its arguments, its effect, the remote table's answer
\* (resp) and the SQLite engine's (stored), and whether it repeats the
\* operation before it (same arguments, same store, neither raised).
Last(op, rom, status, e, resp, stored, prev) ==
    [op |-> op, rom |-> rom, status |-> status, out |-> e.out, ret |-> e.ret,
     raised |-> e.raised, net |-> e.net, sql |-> e.sql,
     resp |-> resp, stored |-> stored,
     twice |-> /\ op = "update" /\ prev.op = "update"
               /\ rom = prev.rom /\ status = prev.status
               /\ ~e.raised /\ ~prev.raised
               /\ e.net = prev.net /\ e.sql = prev.sql
               /\ resp = prev.resp]

NoLast ==
    [op |-> "none", rom |-> <<>>, status |-> None, out |-> EmptyDict, ret |-> None,
     raised |-> FALSE, net |-> <<>>, sql |-> <<>>, resp |-> "none",
     stored |-> "none", twice |-> FALSE]

\* init_state: the session state of a new session
InitSession ==
    /\ status_cache = EmptyDict
    /\ status_cache_loaded = FALSE
    /\ loads = 0
    /\ last = NoLast

\* A new deployment: the remote table is empty and game_state.db holds no
\* table yet.
InitStatus ==
    /\ secrets \in SecretConfigs
    /\ supabase_table = {}
    /\ table_exists = FALSE
    /\ sqlite_db = {}
    /\ InitSession

\* Boot of a script run (lines 638-640): init_state leaves an existing
\* session as it is, then init_sqlite_db, then load_status_cache_once.
\* A raise ends the run.
Boot(resp, okInit, okRead) ==
    IF ~okInit
    THEN /\ last' = Last("boot", <<>>, None,
                         Effect(EmptyDict, None, TRUE, <<>>, <<"CREATE">>, {}, {}),
                         "none", "error", last)
         /\ UNCHANGED <<secrets, supabase_table, table_exists, sqlite_db,
                        status_cache, status_cache_loaded, loads>>
    ELSE \E l \in {load_status_cache_once(status_cache, status_cache_loaded, secrets,
                        supabase_table, init_sqlite_db(table_exists, sqlite_db),
                        resp, okRead)} :
            /\ table_exists' = TRUE
            /\ sqlite_db' = l.eff.db
            /\ supabase_table' = l.eff.remote
            /\ status_cache' = l.cache
            /\ status_cache_loaded' = l.loaded
            /\ loads' = IF l.did THEN loads + 1 ELSE loads
            /\ last' = Last("boot", <<>>, None,
                            [l.eff EXCEPT !.sql = <<"CREATE">> \o l.eff.sql],
                            Answered(l.eff.net, resp),
                            IF l.eff.sql = <<>> THEN "ok" ELSE Engine(okRead), last)
            /\ UNCHANGED secrets

\* A status button of show_game_details (lines 589, 600-615), in a script
\* run whose boot passed.
ClickStatus(cell, new_status, resp, ok) ==
    /\ status_cache_loaded /\ table_exists
    /\ \E u \in {update_status(status_cache, secrets, supabase_table, sqlite_db,
                               row_rom(cell), new_status, resp, ok)} :
          /\ status_cache' = u.cache
          /\ supabase_table' = u.eff.remote
          /\ sqlite_db' = u.eff.db
          /\ last' = Last("update", row_rom(cell), new_status, u.eff,
                          Answered(u.eff.net, resp),
                          Answered(u.eff.sql, Engine(ok)), last)
    /\ UNCHANGED <<secrets, table_exists, status_cache_loaded, loads>>

\* The status shown for a row (lines 589, 594; keep_by_status)
ShowStatus(cell) ==
    /\ status_cache_loaded /\ table_exists
    /\ \E g \in {status_for_rom(status_cache, row_rom(cell))} :
          last' = Last("read", row_rom(cell), None,
                       Effect(EmptyDict, g.ret, FALSE, g.net, g.sql, {}, {}),
                       "none", "none", last)
    /\ UNCHANGED <<secrets, supabase_table, table_exists, sqlite_db, status_cache,
                   status_cache_loaded, loads>>

\* A new browser session: a fresh session_state; the stores stay.
NewSession ==
    /\ last.op # "none"
    /\ status_cache' = EmptyDict
    /\ status_cache_loaded' = FALSE
    /\ loads' = 0
    /\ last' = NoLast
    /\ UNCHANGED <<secrets, supabase_table, table_exists, sqlite_db>>

\* The last enrichment operation: the handler, the row's rom cell and the button, the
\* requests it issued with the answer to each, the data show_adb_block
\* returned, the URLs show_marquee asked of fetch_image_bytes with what each
\* call returned, and the bytes shown.
LastE(op, rom, btn, net, answers, ret, asked, rets, shown) ==
    [op |-> op, rom |-> rom, btn |-> btn, net |-> net, answers |-> answers,
     ret |-> ret, asked |-> asked, rets |-> rets, shown |-> shown]

NoLastE == LastE("none", <<>>, "none", <<>>, <<>>, NoAdb, <<>>, <<>>, None)

\* init_state: the caches of a new session
InitEnrich ==
    /\ adb_cache = EmptyDict
    /\ marquee_bytes_cache = EmptyDict
    /\ fetched = EmptyDict
    /\ lastE = NoLastE

\* The structure handed to extract_image_urls (a JSON null) before any is
InitExtractIdle ==
    /\ payload = JNull
    /\ image_urls = <<>>

\* What a run of the relevance filter leaves: the mode and the subject-name
\* variants it was given, and the list it returned
Ranked(done, strict, variants, out) ==
    [done |-> done, strict |-> strict, variants |-> variants, out |-> out]

NoRanked == Ranked(FALSE, FALSE, {}, <<>>)

\* No search results before any are filtered
InitFilterIdle ==
    /\ search_items = <<>>
    /\ ranked = NoRanked

\* No other session is writing to game_state.db
InitConcIdle ==
    /\ pc = <<>>
    /\ writes = <<>>
    /\ pending = <<>>
    /\ db_lock = 0
    /\ commits = <<>>

Init == InitStatus /\ InitEnrich /\ InitExtractIdle /\ InitFilterIdle /\ InitConcIdle

BootRun ==
    /\ \E resp \in ListResponses, okInit \in BOOLEAN, okRead \in BOOLEAN :
          Boot(resp, okInit, okRead)
    /\ UNCHANGED <<enrichVars, extractVars, filterVars, concVars>>

ClickStatusRun ==
    /\ \E cell \in RawRoms, s \in Statuses \cup {None}, resp \in WriteResponses,
          ok \in BOOLEAN : ClickStatus(cell, s, resp, ok)
    /\ UNCHANGED <<enrichVars, extractVars, filterVars, concVars>>

ShowStatusRun ==
    /\ \E cell \in RawRoms : ShowStatus(cell)
    /\ UNCHANGED <<enrichVars, extractVars, filterVars, concVars>>

NewSessionRun == NewSession /\ UNCHANGED <<enrichVars, extractVars, filterVars, concVars>>

Next == BootRun \/ ClickStatusRun \/ ShowStatusRun \/ NewSessionRun

Spec == Init /\ [][Next]_vars

----------------------------------------------------------------------------
(* The enrichment operations of a session *)

Count(net, u) == Cardinality({i \in 1..Len(net) : net[i] = u})

ScraperKinds == {"scraper_https", "scraper_http"}

\* The requests per URL since the cache entry of its key was last absent:
\* the counts of a rom's endpoints start again when its entry is deleted.
count_requests(counts, dropped, net) ==
    LET kept == {u \in DOMAIN counts : ~(u.kind \in ScraperKinds /\ u.rom \in dropped)}
    IN [u \in kept \cup {net[i] : i \in 1..Len(net)} |->
            (IF u \in kept THEN counts[u] ELSE 0) + Count(net, u)]

\* The ADB expander of show_game_details (lines 589, 627-628) in a run in
\* which the button btn was pressed; the endpoints answer resps.
ShowAdbBlock(cell, btn, resps) ==
    /\ \E f \in {show_adb_block(adb_cache, row_rom(cell), btn, resps)} :
          /\ adb_cache' = f.cache
          /\ fetched' = count_requests(fetched,
                            IF btn = "refresh" THEN {row_rom(cell)} ELSE {}, f.net)
          /\ lastE' = LastE("adb", cell, btn, f.net,
                            [i \in 1..Len(f.net) |-> resps[i]], f.ret, <<>>, <<>>, None)
    /\ UNCHANGED marquee_bytes_cache

\* The marquee of show_game_details (lines 589, 592), with the sidebar's
\* "Show marquees" toggle; the rom's image answers resp1, default.png resp2.
ShowMarquee(cell, enabled, resp1, resp2) ==
    /\ \E m \in {show_marquee(marquee_bytes_cache, row_rom(cell), enabled, resp1, resp2)} :
          /\ marquee_bytes_cache' = m.cache
          /\ fetched' = count_requests(fetched, {}, m.net)
          /\ lastE' = LastE("marquee", cell, "none", m.net, <<>>, NoAdb,
                            m.asked, m.rets, m.shown)
    /\ UNCHANGED adb_cache

\* A new browser session: a fresh session_state
NewSessionE ==
    /\ lastE.op # "none"
    /\ adb_cache' = EmptyDict
    /\ marquee_bytes_cache' = EmptyDict
    /\ fetched' = EmptyDict
    /\ lastE' = NoLastE

\* The status layer, left as a new deployment without secrets has it
InitStatusIdle ==
    /\ secrets = Secrets(NoSecret, NoSecret, NoSecret)
    /\ supabase_table = {}
    /\ table_exists = FALSE
    /\ sqlite_db = {}
    /\ InitSession

InitE == InitStatusIdle /\ InitEnrich /\ InitExtractIdle /\ InitFilterIdle /\ InitConcIdle

\* The rom cells of the rows shown: a blank one and one to normalise.  The
\* caches are keyed by rom and by URL, and no operation reads the entry of
\* another key.
ShownRoms == {<<" ">>, <<" ", "A", " ">>}

ShowAdbBlockRun ==
    /\ \E cell \in ShownRoms, btn \in {"none", "load", "refresh"},
          resps \in [1..2 -> AdbResponses] : ShowAdbBlock(cell, btn, resps)
    /\ UNCHANGED <<statusVars, extractVars, filterVars, concVars>>

ShowMarqueeRun ==
    /\ \E cell \in ShownRoms, enabled \in BOOLEAN, resp1 \in ImageResponses,
          resp2 \in ImageResponses : ShowMarquee(cell, enabled, resp1, resp2)
    /\ UNCHANGED <<statusVars, extractVars, filterVars, concVars>>

NewSessionERun == NewSessionE /\ UNCHANGED <<statusVars, extractVars, filterVars, concVars>>

NextE == ShowAdbBlockRun \/ ShowMarqueeRun \/ NewSessionERun

SpecE == InitE /\ [][NextE]_vars

----------------------------------------------------------------------------
(* extract_image_urls applied to a decoded payload *)

\* The payloads have at most MaxNodes values, containers and scalars counted.
MaxNodes == 4

UrlA == SchemeHttp \o <<"a", ".", "p", "n", "g">>
UrlB == SchemeHttps \o <<"b", ".", "J", "P", "G", "?", "x">>

\* The strings of a payload: an image URL, the same with whitespace around
\* it, one with an upper-case extension and a query, a file name without a
\* scheme, a URL of no image, and an image URL with an upper-case scheme.
SampleStrings ==
    {UrlA,
     <<" ">> \o UrlA \o <<"\n">>,
     UrlB,
     <<"a", ".", "p", "n", "g">>,
     SchemeHttp \o <<"a", ".", "t", "x", "t">>,
     <<"H", "T", "T", "P", ":", "/", "/", "a", ".", "p", "n", "g">>}

Scalars == {JString(s) : s \in SampleStrings} \cup {JNumber}

\* The structures of exactly n values, and the sequences of structures of m
\* values in all.
RECURSIVE TreesOfSize(_)
RECURSIVE ForestsOfSize(_)
TreesOfSize(n) ==
    IF n = 1 THEN Scalars \cup {JDict(<<>>), JList(<<>>)}
    ELSE {JDict(f) : f \in ForestsOfSize(n - 1)} \cup {JList(f) : f \in ForestsOfSize(n - 1)}

ForestsOfSize(m) ==
    IF m = 0 THEN {<<>>}
    ELSE UNION {{<<x>> \o f : x \in TreesOfSize(k), f \in ForestsOfSize(m - k)} : k \in 1..m}

\* The structures of at most n values
PayloadsUpTo(n) == UNION {TreesOfSize(k) : k \in 1..n}

InitX ==
    /\ InitStatusIdle /\ InitEnrich /\ InitFilterIdle /\ InitConcIdle
    /\ payload \in PayloadsUpTo(MaxNodes)
    /\ image_urls = <<>>

\* imgs = extract_image_urls(data) (line 571), once per payload
Extract ==
    /\ lastE.op = "none"
    /\ image_urls' = extract_image_urls(payload)
    /\ lastE' = LastE("extract", <<>>, "none", <<>>, <<>>, NoAdb, <<>>, <<>>, None)
    /\ UNCHANGED <<payload, adb_cache, marquee_bytes_cache, fetched>>

ExtractRun == Extract /\ UNCHANGED <<statusVars, filterVars, concVars>>

NextX == ExtractRun

SpecX == InitX /\ [][NextX]_vars

----------------------------------------------------------------------------
(* Sessions calling sqlite_set_status on the shared game_state.db *)

\* The sessions that write at the same time
NumSessions == 2
Sessions == 1..NumSessions

\* What a session passes to sqlite_set_status
Write(rom, status) == [rom |-> rom, status |-> status]
Writes == {Write(rom, st) : rom \in {<<"a">>, <<"b">>}, st \in Statuses \cup {None}}

\* Each call has its own connection (get_db).  conn.execute opens the
\* connection's transaction and takes the write lock of the file, which one
\* connection holds at a time; the statement changes the table as that
\* transaction has it; conn.commit() writes it to the file and gives the
\* lock back; conn.close() ends the call.
always_reserved(lock, i) == TRUE

\* Whether the engine grants session i the write lock
can_reserve(lock, i) == lock = 0

InitC ==
    /\ secrets = Secrets(NoSecret, NoSecret, NoSecret)
    /\ supabase_table = {}
    /\ table_exists = TRUE
    /\ sqlite_db = {}
    /\ InitSession
    /\ InitEnrich /\ InitExtractIdle /\ InitFilterIdle
    /\ pc = [i \in Sessions |-> "connect"]
    /\ writes \in [Sessions -> Writes]
    /\ pending = [i \in Sessions |-> {}]
    /\ db_lock = 0
    /\ commits = <<>>

\* conn = get_db() (line 266)
Connect(i) ==
    /\ pc[i] = "connect"
    /\ pc' = [pc EXCEPT ![i] = "execute"]
    /\ UNCHANGED <<sqlite_db, writes, pending, db_lock, commits>>

\* conn.execute(...) (lines 267-279) when the lock is granted: the row is
\* deleted or upserted in the transaction.
Execute(i) ==
    /\ pc[i] = "execute"
    /\ can_reserve(db_lock, i)
    /\ db_lock' = i
    /\ pending' = [pending EXCEPT ![i] =
            sqlite_set_status({}, sqlite_db, writes[i].rom, writes[i].status, TRUE).db]
    /\ pc' = [pc EXCEPT ![i] = "commit"]
    /\ UNCHANGED <<sqlite_db, writes, commits>>

\* conn.execute(...) while another connection holds the lock: the engine
\* retries (no step) or gives up, and sqlite3.OperationalError ("database
\* is locked") leaves the call; nothing was taken, nothing is written.
ExecuteLocked(i) ==
    /\ pc[i] = "execute"
    /\ ~can_reserve(db_lock, i)
    /\ pc' = [pc EXCEPT ![i] = "raised"]
    /\ UNCHANGED <<sqlite_db, writes, pending, db_lock, commits>>

\* conn.commit() (line 280)
Commit(i) ==
    /\ pc[i] = "commit"
    /\ sqlite_db' = pending[i]
    /\ db_lock' = IF db_lock = i THEN 0 ELSE db_lock
    /\ commits' = Append(commits, i)
    /\ pc' = [pc EXCEPT ![i] = "close"]
    /\ UNCHANGED <<writes, pending>>

\* conn.commit() raises (the engine cannot write the file): nothing is
\* written; the lock is given back at once, or when the connection that
\* was left open is collected.
CommitFails(i) ==
    /\ pc[i] = "commit"
    /\ pc' = [pc EXCEPT ![i] = "raised"]
    /\ db_lock' \in {db_lock, IF db_lock = i THEN 0 ELSE db_lock}
    /\ UNCHANGED <<sqlite_db, writes, pending, commits>>

\* The connection a raise left open is collected: its transaction is
\* rolled back.
Collect(i) ==
    /\ pc[i] = "raised" /\ db_lock = i
    /\ db_lock' = 0
    /\ UNCHANGED <<sqlite_db, pc, writes, pending, commits>>

\* conn.close() (line 281)
Close(i) ==
    /\ pc[i] = "close"
    /\ pc' = [pc EXCEPT ![i] = "done"]
    /\ UNCHANGED <<sqlite_db, writes, pending, db_lock, commits>>

concFrame ==
    <<secrets, supabase_table, table_exists, status_cache, status_cache_loaded,
      loads, last, enrichVars, extractVars, filterVars>>

ConnectRun == (\E i \in Sessions : Connect(i)) /\ UNCHANGED concFrame
ExecuteRun == (\E i \in Sessions : Execute(i)) /\ UNCHANGED concFrame
ExecuteLockedRun == (\E i \in Sessions : ExecuteLocked(i)) /\ UNCHANGED concFrame
CommitRun == (\E i \in Sessions : Commit(i)) /\ UNCHANGED concFrame
CommitFailsRun == (\E i \in Sessions : CommitFails(i)) /\ UNCHANGED concFrame
CollectRun == (\E i \in Sessions : Collect(i)) /\ UNCHANGED concFrame
CloseRun == (\E i \in Sessions : Close(i)) /\ UNCHANGED concFrame

NextC ==
    \/ ConnectRun \/ ExecuteRun \/ ExecuteLockedRun \/ CommitRun
    \/ CommitFailsRun \/ CollectRun \/ CloseRun

SpecC == InitC /\ [][NextC]_vars

----------------------------------------------------------------------------
(* The relevance filter over search result items.  No part of it is in
   src/app.py; it is written from section 4.5 of the specification. *)

\* The text holds the term: some stretch of it is the term
contains(s, term) ==
    \E i \in 1..(Len(s) - Len(term) + 1) : SubSeq(s, i, i + Len(term) - 1) = term

\* A raw search result
Item(title, snippet, description) ==
    [title |-> title, snippet |-> snippet, description |-> description]

\* Step 1: the lowercase text of the item's title, snippet and description
blob(item) == lower(item.title \o <<" ">> \o item.snippet \o <<" ">> \o item.description)

\* The names the subject went by
SubjectYankees == <<"y", "a", "n", "k", "e", "e", "s">>
SubjectHighlanders == <<"h", "i", "g", "h", "l", "a", "n", "d", "e", "r", "s">>

\* The fixed vocabulary of supporting terms
SupportTerms ==
    { <<"b", "o", "x", " ", "s", "c", "o", "r", "e">>,
      <<"p", "i", "t", "c", "h", "e", "r">>,
      <<"i", "n", "n", "i", "n", "g", "s">> }

\* Step 2: the blob holds one of the subject-name variants
mentions_subject(item, variants) == \E v \in variants : contains(blob(item), v)

\* Step 3: how many of the supporting terms the blob holds
score(item) == Cardinality({t \in SupportTerms : contains(blob(item), t)})

\* Step 2: strict mode keeps the items that name the subject, in their order
survivors(items, variants, strict) ==
    SelectSeq(items, LAMBDA it : ~strict \/ mentions_subject(it, variants))

\* A sort that puts the item before the items of its own score
insert_before_ties(sorted, item) ==
    LET k == Cardinality({p \in 1..Len(sorted) : score(sorted[p]) > score(item)})
    IN SubSeq(sorted, 1, k) \o <<item>> \o SubSeq(sorted, k + 1, Len(sorted))

\* Step 4: the item goes behind every item that scores as much or more
insert_by_score(sorted, item) ==
    LET k == Cardinality({p \in 1..Len(sorted) : score(sorted[p]) >= score(item)})
    IN SubSeq(sorted, 1, k) \o <<item>> \o SubSeq(sorted, k + 1, Len(sorted))

RECURSIVE sort_by_score(_)
sort_by_score(items) ==
    IF items = <<>> THEN <<>>
    ELSE insert_by_score(sort_by_score(SubSeq(items, 1, Len(items) - 1)), items[Len(items)])

relevance_filter(items, variants, strict) ==
    sort_by_score(survivors(items, variants, strict))

\* The longest list of search results
MaxItems == 3

ItemPool ==
    { Item(<<"y", "a", "n", "k", "e", "e", "s", " ", "b", "o", "x", " ", "s", "c", "o", "r", "e">>, <<>>, <<>>),
      Item(<<"w", "e", "a", "t", "h", "e", "r", " ", "r", "e", "p", "o", "r", "t">>, <<>>, <<>>),
      Item(<<"y", "a", "n", "k", "e", "e", "s">>,
           <<"p", "i", "t", "c", "h", "e", "r", " ", "i", "n", "n", "i", "n", "g", "s">>, <<>>),
      Item(<<"H", "i", "g", "h", "l", "a", "n", "d", "e", "r", "s">>, <<>>,
           <<"p", "i", "t", "c", "h", "e", "r">>),
      Item(<<"b", "o", "x", " ", "s", "c", "o", "r", "e">>,
           <<"i", "n", "n", "i", "n", "g", "s">>,
           <<"p", "i", "t", "c", "h", "e", "r">>) }

\* The variants of the periods: before the change of name, after it, and a
\* period that spans it
VariantSets ==
    {{SubjectHighlanders}, {SubjectYankees}, {SubjectHighlanders, SubjectYankees}}

\* The lists of at most n search results
ItemListsUpTo(n) == UNION {[1..k -> ItemPool] : k \in 0..n}

InitR ==
    /\ InitStatusIdle /\ InitEnrich /\ InitExtractIdle /\ InitConcIdle
    /\ search_items \in ItemListsUpTo(MaxItems)
    /\ ranked = NoRanked

\* The filter runs once over the list, in either mode
Filter ==
    /\ ~ranked.done
    /\ \E strict \in BOOLEAN, variants \in VariantSets :
          ranked' = Ranked(TRUE, strict, variants,
                           relevance_filter(search_items, variants, strict))
    /\ UNCHANGED search_items

FilterRun == Filter /\ UNCHANGED <<statusVars, enrichVars, extractVars, concVars>>

NextR == FilterRun

SpecR == InitR /\ [][NextR]_vars

----------------------------------------------------------------------------
(* Properties of the status layer *)

\* Both an endpoint and a credential are present in the configuration: a
\* string that is not blank.
Present(val) == val.t = "str" /\ \E i \in 1..Len(val.s) : val.s[i] # " "

Configured ==
    /\ Present(secrets.SUPABASE_URL)
    /\ Present(secrets.SUPABASE_ANON_KEY) \/ Present(secrets.SUPABASE_KEY)

RemoteFailed(l) == l.resp \in {"unavailable", "unparseable"}

OneRowPerRom(rows) == \A r1, r2 \in rows : r1.rom = r2.rom => r1 = r2

\* C1: when the remote store is configured and its list, upsert or delete
\* fails, the operation is performed on the SQLite store and its result is
\* the result: the listing returned (and cached) is the one
\* sqlite_get_all_statuses alone returns, the local table after a failed
\* remote set_status(k, s) is the one sqlite_set_status(k, s) alone leaves
\* (for a delete as for an upsert), the remote table is as it was, and the
\* call raises only if the SQLite engine itself does.
C1_FallbackIsLocalAlone ==
    [][/\ (last'.op = "update" /\ Configured /\ RemoteFailed(last')) =>
            \E ok \in BOOLEAN :
                LET alone == sqlite_set_status(supabase_table, sqlite_db, last'.rom,
                                               last'.status, ok)
                IN /\ last'.stored = Engine(ok)
                   /\ last'.raised = alone.raised
                   /\ last'.raised = ~ok
                   /\ sqlite_db' = alone.db
                   /\ supabase_table' = supabase_table
                   /\ last'.sql = alone.sql
       /\ (last'.op = "boot" /\ Configured /\ RemoteFailed(last')) =>
            \E ok \in BOOLEAN :
                LET alone == sqlite_get_all_statuses(supabase_table, sqlite_db', ok)
                IN /\ last'.stored = Engine(ok)
                   /\ last'.raised = alone.raised
                   /\ last'.raised = ~ok
                   /\ last'.out = alone.out
                   /\ ~last'.raised => status_cache' = listing(sqlite_db')
                   /\ sqlite_db' = init_sqlite_db(table_exists, sqlite_db)
                   /\ supabase_table' = supabase_table
      ]_vars

\* A delete whose remote request failed removed the row from the local
\* table, and the remote table still holds its row.
C1_Witness ==
    /\ last.op = "update" /\ last.status = None /\ last.resp = "unavailable"
    /\ ~last.raised /\ last.sql = <<"DELETE">>
    /\ ~\E r \in sqlite_db : r.rom = last.rom
    /\ \E r \in supabase_table : r.rom = last.rom

\* C2: after update_status(k, s) returned, for a non-empty k and a status s,
\* status_for_rom(k) returns s, whichever store took the write.
C2_ReadYourWrite ==
    (last.op = "update" /\ ~last.raised /\ last.rom # <<>> /\ last.status # None)
        => status_for_rom(status_cache, last.rom).ret = last.status

\* The write reached the local table through the fallback.
C2_Witness ==
    /\ last.op = "update" /\ ~last.raised /\ last.rom # <<>>
    /\ last.status = STATUS_PLAYED
    /\ last.net = <<"POST">> /\ last.sql = <<"INSERT">>

\* C3: after update_status(k, none) returned, status_for_rom(k) returns none
\* and k is in no listing get_all_statuses returns next, whichever store
\* served the delete and whichever serves the listing.
C3_DeletedIsAbsentEverywhere ==
    (last.op = "update" /\ ~last.raised /\ last.status = None) =>
        /\ status_for_rom(status_cache, last.rom).ret = None
        /\ \A resp \in ListResponses, ok \in BOOLEAN :
              LET got == get_all_statuses(secrets, supabase_table, sqlite_db, resp, ok)
              IN ~got.raised => last.rom \notin DOMAIN got.out

\* C8: an upsert(k, s) that repeats the upsert before it on the same store
\* leaves the listing of either table as the first left it, and no table
\* ever holds two rows of one rom.
C8_UpsertIdempotent ==
    /\ [](OneRowPerRom(sqlite_db) /\ OneRowPerRom(supabase_table))
    /\ [][(last'.twice /\ last' # last /\ last'.status # None) =>
            /\ listing(sqlite_db') = listing(sqlite_db)
            /\ listing(supabase_table') = listing(supabase_table)
            /\ sqlite_db' = sqlite_db /\ supabase_table' = supabase_table
          ]_vars

\* The same upsert ran twice on the local table, over a row that held the
\* other status before.
C8_Witness ==
    /\ last.twice /\ last.status = STATUS_WANT /\ last.sql = <<"INSERT">>
    /\ Row(last.rom, STATUS_WANT) \in sqlite_db
    /\ Cardinality(sqlite_db) = 2

\* C9: a session assigns status_cache from a backend at most once;
\* status_for_rom issues no request and no statement and returns the cached
\* value; with the remote configured and unreachable, an update_status(k, s)
\* the local engine accepts returns, the row is in the local table, and
\* status_for_rom(k) returns s with no request.
C9_LoadedOnceReadsFromCache ==
    /\ loads <= 1
    /\ (status_cache_loaded <=> loads = 1)
    /\ last.op = "read" =>
          /\ last.net = <<>> /\ last.sql = <<>>
          /\ last.ret = DictGet(status_cache, last.rom)
    /\ (/\ last.op = "update" /\ Configured /\ last.resp = "unavailable"
        /\ last.stored = "ok" /\ last.status # None) =>
          /\ ~last.raised
          /\ Row(last.rom, last.status) \in sqlite_db
          /\ status_for_rom(status_cache, last.rom) =
                [ret |-> last.status, net |-> <<>>, sql |-> <<>>]

\* After the one load, a write whose remote request failed is in the local
\* table and in the cache, and not in the remote table.
C9_Witness ==
    /\ loads = 1 /\ Configured
    /\ last.op = "update" /\ last.resp = "unavailable" /\ last.stored = "ok"
    /\ last.status = STATUS_PLAYED
    /\ DictGet(status_cache, last.rom) = STATUS_PLAYED
    /\ ~\E r \in supabase_table : r.rom = last.rom

\* C10: a request to the remote table is issued only if an endpoint and a
\* credential are present; when one is absent, the listing and the write
\* run on the local table alone.
C10_RemoteOnlyWhenConfigured ==
    /\ last.net # <<>> => Configured
    /\ (~Configured /\ last.op = "update" /\ last.rom # <<>>) =>
          /\ last.net = <<>> /\ last.resp = "none"
          /\ last.sql = <<IF last.status = None THEN "DELETE" ELSE "INSERT">>
    /\ (~Configured /\ last.op = "boot" /\ loads = 1 /\ last.sql # <<"CREATE">>) =>
          /\ last.net = <<>>
          /\ last.sql = <<"CREATE", "SELECT">>

\* An endpoint without a credential: the write ran on the local table.
C10_Witness ==
    /\ Present(secrets.SUPABASE_URL) /\ ~Configured
    /\ last.op = "update" /\ last.sql = <<"INSERT">> /\ last.net = <<>>
    /\ Row(last.rom, last.status) \in sqlite_db

\* C11: when the remote listing's body is unparseable or is no JSON array,
\* the remote list operation fails and get_all_statuses returns, and the
\* session caches, the listing of the local table.
C11_BadListingFallsBack ==
    (/\ last.op = "boot" /\ Configured /\ last.resp \in {"unparseable", "nonarray"}
     /\ last.stored # "error") =>
        /\ last.out = listing(sqlite_db)
        /\ status_cache = listing(sqlite_db)

\* C13: once the session's cache is loaded, status_cache is the mapping
\* get_all_statuses() returns at that moment from the active backend (the
\* remote table when configured and answering, the local table otherwise),
\* after any updates and any remote failures and recoveries.
C13_CacheIsBackendListing ==
    status_cache_loaded =>
        status_cache = get_all_statuses(secrets, supabase_table, sqlite_db, "ok", TRUE).out

\* The table that took the write of the update l: the local one when a
\* statement was issued, the remote one otherwise.
TookWrite(l, remote, db) == IF l.sql # <<>> THEN db ELSE remote

\* C14: update_status changes status_cache only when set_status returned:
\* a step that changes the cache is an update that did not raise, and the
\* table that took the write holds the row (or, for a clear, no row of the
\* rom); an update that raised (the remote failed and then the local engine
\* did) leaves the cache and both tables as they were; and every entry of
\* status_cache is a row, with that status, of the remote or the local table.
C14_BackendBeforeCache ==
    /\ [](\A k \in DOMAIN status_cache :
            Row(k, status_cache[k]) \in supabase_table \cup sqlite_db)
    /\ [][/\ (last'.op = "update" /\ last'.raised) =>
               /\ status_cache' = status_cache
               /\ sqlite_db' = sqlite_db /\ supabase_table' = supabase_table
               /\ last'.stored = "error"
          /\ (last'.op = "update" /\ status_cache' # status_cache) =>
               /\ ~last'.raised
               /\ last'.net \o last'.sql # <<>>
               /\ IF last'.status = None
                  THEN /\ ~\E r \in TookWrite(last', supabase_table', sqlite_db') :
                             r.rom = last'.rom
                       /\ last'.rom \notin DOMAIN status_cache'
                  ELSE /\ Row(last'.rom, last'.status) \in
                             TookWrite(last', supabase_table', sqlite_db')
                       /\ status_cache'[last'.rom] = last'.status
          ]_vars

\* An update that failed in both stores: the cache keeps the status the
\* rom had, which is the one the local table holds.
C14_Witness ==
    /\ last.op = "update" /\ last.raised /\ last.status = STATUS_WANT
    /\ last.net = <<"POST">> /\ last.sql = <<"INSERT">>
    /\ DictGet(status_cache, last.rom) = STATUS_PLAYED
    /\ Row(last.rom, STATUS_PLAYED) \in sqlite_db

----------------------------------------------------------------------------
(* Properties of the enrichment clients *)

\* A run of the ADB expander that calls fetch_adb_details for a rom
AdbFetch(l) == l.op = "adb" /\ l.btn # "none" /\ norm_rom(l.rom) # <<>>

\* A step in which fetch_adb_details is called for a rom whose entry is cached
\* and not invalidated: no request, the cached value, the cache as it was.
CachedAdbServed ==
    (AdbFetch(lastE') /\ lastE'.btn = "load" /\ norm_rom(lastE'.rom) \in DOMAIN adb_cache) =>
        /\ lastE'.net = <<>>
        /\ lastE'.ret = adb_cache[norm_rom(lastE'.rom)]
        /\ adb_cache' = adb_cache

\* A step in which fetch_image_bytes is called for URLs: one whose entry is
\* cached is not requested and the cached value is returned; no entry changes.
CachedBytesServed ==
    lastE'.op = "marquee" =>
        /\ \A i \in 1..Len(lastE'.asked) :
              lastE'.asked[i] \in DOMAIN marquee_bytes_cache =>
                  /\ lastE'.rets[i] = marquee_bytes_cache[lastE'.asked[i]]
                  /\ Count(lastE'.net, lastE'.asked[i]) = 0
        /\ \A u \in DOMAIN marquee_bytes_cache :
              u \in DOMAIN marquee_bytes_cache' /\ marquee_bytes_cache'[u] = marquee_bytes_cache[u]

\* C4: once a fetch for a rom (fetch_adb_details) or a URL (fetch_image_bytes)
\* has completed, with data or with a failure, its result is cached; a later
\* fetch for the same key issues no request and returns the cached value,
\* until the entry is deleted ("Refresh"); so no endpoint variant and no
\* image URL is requested twice while its entry stands.
C4_CachedUntilInvalidated ==
    /\ [](\A u \in DOMAIN fetched : fetched[u] <= 1)
    /\ [](AdbFetch(lastE) => norm_rom(lastE.rom) \in DOMAIN adb_cache)
    /\ [](lastE.op = "marquee" =>
            \A i \in 1..Len(lastE.asked) : lastE.asked[i] \in DOMAIN marquee_bytes_cache)
    /\ [][CachedAdbServed /\ CachedBytesServed]_vars

\* A failure that was cached is served again without a request: both
\* variants were requested once, and "Load" returned the error result.
C4_Witness ==
    /\ AdbFetch(lastE) /\ lastE.btn = "load" /\ lastE.net = <<>>
    /\ lastE.ret.kind = "error"
    /\ fetched[Url("scraper_https", norm_rom(lastE.rom))] = 1
    /\ fetched[Url("scraper_http", norm_rom(lastE.rom))] = 1
    /\ \E u \in DOMAIN marquee_bytes_cache : marquee_bytes_cache[u] = None

\* C5: on a cache miss fetch_adb_details requests the https variant first
\* and the http variant only if the https one failed; the payload of the
\* first variant that answers with JSON (wrapped under "_data" when it is no
\* object) is returned and cached under the normalised rom, and no variant
\* is requested after it.
C5_VariantsInOrder ==
    [][(/\ AdbFetch(lastE')
        /\ norm_rom(lastE'.rom) \notin DOMAIN adb_cache \/ lastE'.btn = "refresh") =>
            LET k == norm_rom(lastE'.rom)
                net == lastE'.net
                ans == lastE'.answers
                n == Len(net)
            IN /\ n \in 1..2
               /\ net[1] = Url("scraper_https", k)
               /\ n = 1 => ans[1].kind # "raise"
               /\ n = 2 => net[2] = Url("scraper_http", k) /\ ans[1].kind = "raise"
               /\ ans[n].kind = "object" =>
                     lastE'.ret = Adb("dict", ans[n].body, <<>>, NoUrl)
               /\ ans[n].kind = "array" =>
                     lastE'.ret = Adb("wrapped", ans[n].body, <<>>, NoUrl)
               /\ k \in DOMAIN adb_cache' /\ adb_cache'[k] = lastE'.ret
      ]_vars

\* The https variant failed and the http variant answered an object, which
\* is cached under the lower-cased, stripped rom of the cell " A ".
C5_Witness ==
    /\ AdbFetch(lastE) /\ lastE.rom = <<" ", "A", " ">>
    /\ Len(lastE.net) = 2
    /\ lastE.answers[1].kind = "raise" /\ lastE.answers[2].kind = "object"
    /\ <<"a">> \in DOMAIN adb_cache
    /\ adb_cache[<<"a">>] = Adb("dict", lastE.answers[2].body, <<>>, NoUrl)

\* C6: when both variants fail, fetch_adb_details returns an error result
\* (it raises nothing) whose detail is the message of the http variant's
\* failure, the last one ("Unknown error" when that message is empty),
\* with the rom and the http page URL as fallback; the same result is cached
\* under the rom.
C6_AllFailedIsCachedError ==
    (/\ AdbFetch(lastE) /\ Len(lastE.net) = 2
     /\ \A i \in 1..2 : lastE.answers[i].kind = "raise") =>
        LET k == norm_rom(lastE.rom)
            msg == lastE.answers[2].body
        IN /\ lastE.ret.kind = "error"
           /\ lastE.ret.body = IF msg = "" THEN "Unknown error" ELSE msg
           /\ lastE.ret.rom = k
           /\ lastE.ret.page = Url("page_http", k)
           /\ k \in DOMAIN adb_cache /\ adb_cache[k] = lastE.ret

\* Two failures with different messages: the detail is the second one's.
C6_Witness ==
    /\ AdbFetch(lastE)
    /\ lastE.answers = <<Raises("timed out"), Raises("HTTP Error 500")>>
    /\ lastE.ret.kind = "error" /\ lastE.ret.body = "HTTP Error 500"
    /\ adb_cache[norm_rom(lastE.rom)] = lastE.ret

----------------------------------------------------------------------------
(* Properties of extract_image_urls *)

Extracted == lastE.op = "extract"

\* The string values of a structure, in depth-first order
RECURSIVE StringValues(_)
RECURSIVE StringValuesFrom(_, _)
StringValuesFrom(items, i) ==
    IF i > Len(items) THEN <<>>
    ELSE StringValues(items[i]) \o StringValuesFrom(items, i + 1)

StringValues(x) ==
    IF x.t = "str" THEN <<x.s>>
    ELSE IF x.t \in {"dict", "list"} THEN StringValuesFrom(x.items, 1)
    ELSE <<>>

\* A string that starts with http:// or https:// (in lower case) and ends
\* with .png, .jpg, .jpeg or .webp (in any case), or with such an extension
\* followed by "?" and a query.
HttpImageUrl(s) ==
    /\ \E scheme \in {SchemeHttp, SchemeHttps} :
          Len(s) >= Len(scheme) /\ \A i \in 1..Len(scheme) : s[i] = scheme[i]
    /\ \E dot \in 1..Len(s), n \in 3..4 :
          /\ s[dot] = "." /\ dot + n <= Len(s)
          /\ [i \in 1..n |-> lower_char(s[dot + i])] \in ImageExtensions
          /\ dot + n = Len(s) \/ s[dot + n + 1] = "?"
          /\ \A j \in dot + n + 1..Len(s) : s[j] # "\n"

Elements(seq) == {seq[i] : i \in 1..Len(seq)}

NoRepeats(seq) == \A i, j \in 1..Len(seq) : i # j => seq[i] # seq[j]

\* Where the value u first occurs in vals, and where a value that strips
\* to u first does
FirstAt(vals, u) ==
    CHOOSE k \in 1..Len(vals) : vals[k] = u /\ \A h \in 1..k - 1 : vals[h] # u

FirstStrippedAt(vals, u) ==
    CHOOSE k \in 1..Len(vals) : strip(vals[k]) = u /\ \A h \in 1..k - 1 : strip(vals[h]) # u

\* C7 as stated: the result holds exactly the string values of the
\* structure that are http/https image URLs, each once, in the order of
\* their first occurrence.
C7_ExactlyTheUrlValues ==
    Extracted =>
        LET vals == StringValues(payload)
        IN /\ Elements(image_urls) = {v \in Elements(vals) : HttpImageUrl(v)}
           /\ NoRepeats(image_urls)
           /\ \A i, j \in 1..Len(image_urls) :
                 i < j => FirstAt(vals, image_urls[i]) < FirstAt(vals, image_urls[j])

\* C7, amended: the result holds exactly the string values, stripped of the
\* whitespace around them, that are then http/https image URLs; a URL is in
\* it once however many values strip to it, and the order is that of the
\* first value that strips to each, depth-first.
C7_ExactlyTheStrippedUrlValues ==
    Extracted =>
        LET vals == StringValues(payload)
        IN /\ Elements(image_urls) = {strip(v) : v \in {w \in Elements(vals) : HttpImageUrl(strip(w))}}
           /\ NoRepeats(image_urls)
           /\ \A i, j \in 1..Len(image_urls) :
                 i < j => FirstStrippedAt(vals, image_urls[i]) < FirstStrippedAt(vals, image_urls[j])

\* A dict whose values are a list of a URL with a query and an upper-case
\* extension, then a URL with whitespace around it, then the same URL
\* without: the result is the first and the stripped second.
C7_Witness ==
    /\ Extracted
    /\ payload.t = "dict" /\ Len(payload.items) = 2 /\ payload.items[1].t = "list"
    /\ StringValues(payload) = <<UrlB, <<" ">> \o UrlA \o <<"\n">>>>
    /\ image_urls = <<UrlB, UrlA>>

----------------------------------------------------------------------------
(* Properties of concurrent writes to the local table *)

Completed == \A i \in DOMAIN pc : pc[i] \in {"done", "raised"}

\* The commits that wrote the rom k, in commit order
CommitsOf(k) == SelectSeq(commits, LAMBDA i : writes[i].rom = k)

\* What the table holds for the rom k
RowsOf(rows, k) == {r \in rows : r.rom = k}

\* The rows of k that the last commit on k leaves: none when nothing was
\* committed for k or the last commit cleared it, its row otherwise.
LastWriteWins(k) ==
    LET cs == CommitsOf(k)
    IN IF cs = <<>> \/ writes[cs[Len(cs)]].status = None
       THEN {}
       ELSE {Row(k, writes[cs[Len(cs)]].status)}

\* A step that changes the file is the commit of one session, and the file
\* afterwards is the file before with that session's write applied to it.
OneWriteAtATime ==
    sqlite_db' # sqlite_db =>
        \E i \in DOMAIN pc :
            /\ pc[i] = "commit" /\ pc'[i] = "close"
            /\ commits' = Append(commits, i)
            /\ RowsOf(sqlite_db', writes[i].rom) =
                  IF writes[i].status = None THEN {}
                  ELSE {Row(writes[i].rom, writes[i].status)}
            /\ \A r \in sqlite_db \cup sqlite_db' :
                  r.rom # writes[i].rom => (r \in sqlite_db <=> r \in sqlite_db')

\* C15: sessions that call sqlite_set_status at the same time are
\* serialised by the engine's lock: one transaction is open for writing at
\* a time, each commit applies one session's write to the file as the
\* commit before left it, no rom ever has two rows, and the row of a rom is
\* always that of the last commit on it (none if that cleared it), so also
\* once every call has returned or raised.
C15_LastCommitWins ==
    /\ [](Cardinality({i \in DOMAIN pc : pc[i] = "commit"}) <= 1)
    /\ [](OneRowPerRom(sqlite_db))
    /\ [](\A w \in Writes : RowsOf(sqlite_db, w.rom) = LastWriteWins(w.rom))
    /\ [][OneWriteAtATime]_vars

\* Both sessions wrote the rom a, with different statuses, the second
\* session first: the table holds the one row of the first session.
C15_Witness ==
    /\ Completed /\ commits = <<2, 1>>
    /\ writes[1] = Write(<<"a">>, STATUS_PLAYED)
    /\ writes[2] = Write(<<"a">>, STATUS_WANT)
    /\ sqlite_db = {Row(<<"a">>, STATUS_PLAYED)}

----------------------------------------------------------------------------
(* Properties of the relevance filter *)

\* The places of the list whose item names the subject
Naming(items, variants) ==
    {i \in 1..Len(items) : mentions_subject(items[i], variants)}

\* C12: in strict mode the filter returns exactly the items whose blob
\* holds one of the subject-name variants, each once, an item of a higher
\* count of supporting terms before one of a lower count, and items of the
\* same count in the order they had in the list.
C12_StrictKeepsAndRanks ==
    (ranked.done /\ ranked.strict) =>
        \E f \in [1..Len(ranked.out) -> 1..Len(search_items)] :
            /\ \A p \in 1..Len(ranked.out) : ranked.out[p] = search_items[f[p]]
            /\ {f[p] : p \in 1..Len(ranked.out)} = Naming(search_items, ranked.variants)
            /\ \A p, q \in 1..Len(ranked.out) :
                  p < q =>
                    \/ score(ranked.out[p]) > score(ranked.out[q])
                    \/ /\ score(ranked.out[p]) = score(ranked.out[q])
                       /\ f[p] < f[q]

\* The example of the specification: of "yankees box score", "weather
\* report" and "yankees pitcher innings" the second is dropped and the
\* third, with two supporting terms, comes before the first, with one.
C12_Witness ==
    /\ ranked.done /\ ranked.strict /\ ranked.variants = {SubjectYankees}
    /\ Len(search_items) = 3 /\ Len(ranked.out) = 2
    /\ blob(search_items[2]) = lower(<<"w", "e", "a", "t", "h", "e", "r", " ", "r", "e", "p", "o", "r", "t">> \o <<" ", " ">>)
    /\ ranked.out = <<search_items[3], search_items[1]>>
    /\ score(search_items[1]) = 1 /\ score(search_items[3]) = 2

====
